---- MODULE Spec2Model ----
(***************************************************************************)
(* ModelRMHL (Python implementation/Modified Reimplementation/ModelRMHL.py)*)
(* as a state machine: construction (__init__ + build), the training loop, *)
(* the test loop, save_results and the two plotting passes.                *)
(*                                                                         *)
(* Numbers.  The program computes in floating point.  Here every real      *)
(* quantity v is the integer v*Unit (fixed point, rounded to the nearest    *)
(* integer once per expression).   The readout matrix W_RMHL is kept in    *)
(* the finer unit 1/WScale, WScale = LrDen*Unit^3, so that one weight      *)
(* update (learningrate * phi * z_RMHL_hat * r * compensation) is exact.   *)
(* The global numpy generator is a linear congruential generator over      *)
(* 0..RngMod-1; a draw g stands for the uniform sample g/RngMod.           *)
(* Indices are 0-based as in the source.                                   *)
(***************************************************************************)
EXTENDS Integers, Sequences, FiniteSets, TLC

VARIABLES
    pc,             \* position of the caller: "init", "built", "training", "trained", "testing", "tested", "saved"
    parameters,     \* the parameters dict given to __init__
    exp,            \* the exp dict given to __init__
    rng,            \* state of the global numpy generator
    rng_log,        \* history of the calls made on the generator (seed / draw groups)
    rseed,          \* s.rseed
    J, Q, x, r, z,  \* s.J, s.Q, s.x, s.r, s.z
    W_RMHL,         \* s.W_RMHL
    e, e_bar, z_bar, z_RMHL_bar,
    error, cost_rec, z_rec, z_RMHL_rec, hz_rec, W_RMHL_rec,
    trial_num, time_step,
    zt,             \* the feedback read by the last test step: [trial, row, col, val]
    writes,         \* history of the cells written to each recorded series
    W_trained,      \* history: s.W_RMHL when train() returned
    z_trained,      \* history: s.z_rec when train() returned
    first,          \* an earlier instance built from the same dicts: [rseed, J, Q, x]
    Data,           \* the file Data.npz
    plots           \* what plot / plot_distinct computed from Data.npz

vars == <<pc, parameters, exp, rng, rng_log, rseed, J, Q, x, r, z, W_RMHL,
          e, e_bar, z_bar, z_RMHL_bar, error, cost_rec, z_rec, z_RMHL_rec,
          hz_rec, W_RMHL_rec, trial_num, time_step, zt, writes, W_trained,
          z_trained, first, Data, plots>>

---------------------------------------------------------------------------
(* Bounds of the model *)

Unit == 4           \* fixed-point resolution: the real number 1.0
RngMod == 8         \* number of states of the generator
MaxSeed == 1        \* exp['rseed'] ranges over 0..MaxSeed
MaxN == 2           \* parameters['N']
MaxTrain == 6       \* parameters['n_train_trials'] ranges over MaxTrain-1..MaxTrain (the source asks for 5 or more)
MaxTest == 6        \* parameters['n_test_trials'] ranges over MaxTest-1..MaxTest
MaxT == 1           \* exp['timespan']
MaxTauZ == 2        \* parameters['tau_z'] ranges over 1..MaxTauZ

(* Program constants *)

LrNum == 5          \* s.learningrate = .0005 = LrNum / LrDen
LrDen == 10000
Lag == 5            \* trial_num-5
Unnec == 2090       \* size of the discarded draw
SeedRange == 10000000   \* np.random.randint(0,1e7)

WScale == LrDen * Unit * Unit * Unit

Null == <<>>

---------------------------------------------------------------------------
(* Fixed-point arithmetic *)

Abs(v) == IF v < 0 THEN -v ELSE v
Min(a, b) == IF a < b THEN a ELSE b
Max(a, b) == IF a < b THEN b ELSE a
\* a/b rounded to the nearest integer (b > 0)
RDiv(a, b) == (2 * a + b) \div (2 * b)
FMul(a, b) == RDiv(a * b, Unit)

RECURSIVE SumTo(_, _)
\* f[0] + ... + f[n-1]
SumTo(f, n) == IF n = 0 THEN 0 ELSE SumTo(f, n - 1) + f[n - 1]

\* np.tanh: the saturating odd map, slope 1 at 0, limits -1 and 1
Tanh(v) == Max(-Unit, Min(Unit, v))

\* largest k with (k/Unit)^2 <= v/Unit
Sqrt(v) == CHOOSE k \in 0..(Abs(v) + Unit) : k * k <= v * Unit /\ (k + 1) * (k + 1) > v * Unit

---------------------------------------------------------------------------
(* The global generator of numpy *)

\* one step of the generator
NextRng(g) == (5 * g + 3) % RngMod

RECURSIVE Iter(_, _)
\* the state after k draws
Iter(g, k) == IF k = 0 THEN g ELSE NextRng(Iter(g, k - 1))

\* np.random.uniform(size=k): the k samples drawn from state g
Stream(g, k) == [i \in 1..k |-> Iter(g, i)]

RECURSIVE Affine(_)
\* the k-fold step as an affine map <<a, c>>: Iter(g, k) = (a*g + c) % RngMod
Affine(k) ==
    IF k = 0 THEN <<1, 0>>
    ELSE IF k % 2 = 0
         THEN LET h == Affine(k \div 2) IN <<(h[1] * h[1]) % RngMod, (h[1] * h[2] + h[2]) % RngMod>>
         ELSE LET h == Affine(k - 1) IN <<(5 * h[1]) % RngMod, (5 * h[2] + 3) % RngMod>>

\* the state after k draws whose samples are discarded
Skip(g, k) == LET h == Affine(k) IN (h[1] * g + h[2]) % RngMod

\* (variant: the call is missing)
seed_noop(g, n) == g

\* np.random.seed(n)
np_random_seed(g, n) == n % RngMod

\* np.random.randint(0, SeedRange) from state g: <<sample, next state>>
np_random_randint(g) == LET g1 == NextRng(g) IN <<(g1 * SeedRange) \div RngMod, g1>>

\* stats.norm.ppf of the sample g/RngMod: monotone, odd about 1/2, here linear onto (-2, 2)
Ppf(g) == ((2 * g + 1 - RngMod) * 2 * Unit) \div RngMod

---------------------------------------------------------------------------
(* The inputs of __init__.  A rational input (dT, sparsity) is a pair <<numerator, denominator>>. *)

ParameterSet ==
    [N : {MaxN}, lmbda : {(3 * Unit) \div 2}, sparsity : {<<1, 2>>},
     dT : {<<1, 2>>, <<1, 1>>},
     n_train_trials : (MaxTrain - 1)..MaxTrain, n_test_trials : (MaxTest - 1)..MaxTest,
     alpha : {Unit \div 4}, tau : {2}, tau_w : {1}, tau_e : {2}, tau_z : 1..MaxTauZ]

ExpSet ==
    {ex \in [rseed : 0..MaxSeed, timespan : {MaxT}, task_type : 1..3, n_segs : 1..2,
             arm_len : {Unit}, arm_cost : {1}] :
        ex.n_segs = (IF ex.task_type = 3 THEN 2 ELSE 1)}

(* The attributes __init__ derives from them *)

n_out == IF exp.task_type = 1 THEN 2 ELSE exp.n_segs
N == parameters.N
dT == parameters.dT
tau_z == parameters.tau_z
alpha == parameters.alpha
n_train_trials == parameters.n_train_trials
n_test_trials == parameters.n_test_trials
n_total_trials == parameters.n_train_trials + parameters.n_test_trials
leak == <<dT[1], dT[2] * parameters.tau>>
n_timesteps == (exp.timespan * dT[2]) \div dT[1]
sigma == (parameters.lmbda * Unit) \div Sqrt((parameters.sparsity[1] * N * Unit) \div parameters.sparsity[2])

Neurons == 0..(N - 1)
Outs == 0..(n_out - 1)
Trials == 0..(n_total_trials - 1)
Steps == 0..(n_timesteps - 1)

---------------------------------------------------------------------------
(* The Task collaborator *)

\* task.round_up of the rational num/den
round_up(num, den) == -((-num) \div den)

\* task.rand_int(n, k) from state g: k indices in 0..n-1
rand_int(g, n, k) == [i \in 1..k |-> (Iter(g, i) * n) \div RngMod]

\* task.data: the target trajectory, outputs[time_step] = <<x, y>>
outputs == [t \in Steps |-> <<IF t % 2 = 0 THEN Unit ELSE 0, Unit \div 2>>]

\* task.psi(e_bar, trial_num, time_step): the exploration amplitude
psi(eb, trial, t) == Min(Unit, 1 + Abs(eb))

Cos(v) == Unit - Min(Abs(v), 2 * Unit)
Sin(v) == Tanh(v)

\* task.h(z): identity for coordinates, forward kinematics for an arm
h(zz) ==
    IF exp.task_type = 1 THEN <<zz[0], zz[1]>>
    ELSE LET cum == [i \in Outs |-> SumTo(zz, i + 1)]
         IN <<SumTo([i \in Outs |-> FMul(exp.arm_len, Cos(cum[i]))], n_out),
              SumTo([i \in Outs |-> FMul(exp.arm_len, Sin(cum[i]))], n_out)>>

\* task.cost(z_hat)
cost(z_hat) ==
    IF exp.task_type = 3
    THEN exp.arm_cost * SumTo([i \in Outs |-> FMul(z_hat[i], z_hat[i])], n_out)
    ELSE 0

\* task.phi(e_hat): saturating, descending
phi(e_hat) == -Max(-2 * Unit, Min(2 * Unit, e_hat))

\* task.compensation('RMHL')
compensation == 1

\* task.norm(W), in the unit of W
norm(W) == SumTo([k \in Outs |-> SumTo([i \in Neurons |-> Abs(W[k][i])], N)], n_out)

---------------------------------------------------------------------------
(* build *)

\* the attributes build gives the instance, seeded with sd, and the generator it leaves
build(g0, sd) ==
    LET g1   == np_random_seed(g0, sd)
        Jne  == round_up(N * N * parameters.sparsity[1], parameters.sparsity[2])
        idx_x == rand_int(g1, N, Jne)
        g2   == Iter(g1, Jne)
        idx_y == rand_int(g2, N, Jne)
        g3   == Iter(g2, Jne)
        Jnz  == {<<idx_x[i], idx_y[i]>> : i \in 1..Jne}
        Jcnz == Cardinality(Jnz)
        Jr   == [k \in 1..Jcnz |-> Ppf(Iter(g3, k))]
        g4   == Iter(g3, Jcnz)
        \* np.nonzero lists the cells row by row
        rank(c) == 1 + Cardinality({d \in Jnz : d[1] * N + d[2] < c[1] * N + c[2]})
        g5   == Skip(g4, Unnec)
        rnd  == Stream(g5, n_out * N)
        g6   == Iter(g5, n_out * N)
        x0   == [i \in Neurons |-> (Iter(g6, i + 1) * Unit) \div RngMod - Unit \div 2]
        g7   == Iter(g6, N)
    IN  [J |-> [i \in Neurons |-> [j \in Neurons |->
                    IF <<i, j>> \in Jnz THEN FMul(Jr[rank(<<i, j>>)], sigma) ELSE 0]],
         Q |-> [i \in Neurons |-> [k \in Outs |->
                    (rnd[k * N + i + 1] * 2 * Unit) \div RngMod - Unit]],
         x |-> x0,
         r |-> [i \in Neurons |-> Tanh(x0[i])],
         rng |-> g7,
         log |-> <<"seed", "wiring", "wiring", "wiring", "unnec", "wiring", "state">>]

\* a recorded series as build allocates it: zero everywhere
Zeros(v) == [k \in Trials |-> [t \in Steps |-> v]]
ZeroVec == [k \in Outs |-> 0]

\* (variant: the readout starts from ones)
OnesMat == [k \in Outs |-> [i \in Neurons |-> Unit]]

\* np.zeros((s.n_out, s.N))
ZeroMat == [k \in Outs |-> [i \in Neurons |-> 0]]

---------------------------------------------------------------------------
(* Pieces of the simulation loops *)

\* np.dot(W, v) for a matrix W[row][col] over the columns 0..n-1
Dot(W, v, n) == [i \in DOMAIN W |-> SumTo([j \in 0..(n - 1) |-> W[i][j] * v[j]], n)]

\* s.x + (s.leak)*(-s.x + np.dot(s.J,s.r) + np.dot(s.Q,fb))
advance(fb) ==
    LET Jr == Dot(J, r, N)
        Qz == Dot(Q, fb, n_out)
    IN  [i \in Neurons |-> x[i] + RDiv(leak[1] * (-x[i] + RDiv(Jr[i] + Qz[i], Unit)), leak[2])]

\* np.random.uniform(0, 1, (n, 1)) * amp * 2 - amp, drawn from state g
noise(g, n, amp) == [i \in 0..(n - 1) |-> RDiv(Iter(g, i + 1) * amp * 2, RngMod) - amp]

\* np.dot(s.W_RMHL, s.r), W in the unit 1/WScale
readout(W, rr) == LET Wr == Dot(W, rr, N) IN [k \in Outs |-> RDiv(Wr[k], WScale)]

\* (1 - c) * bar + c * v for the constant c = cn/cd
LowPass(cn, cd, bar, v) == RDiv((cd - cn) * bar + cn * v, cd)
LowPassVec(cn, cd, bar, v) == [k \in DOMAIN v |-> LowPass(cn, cd, bar[k], v[k])]

\* (variant: the trial is not looked at)
IsEveryTrialStart(trial, t) == t = 0

\* (variant: the traces are never set to the instantaneous value)
NeverFirstStep(trial, t) == FALSE

\* trial_num==0 and time_step==0
IsFirstStep(trial, t) == trial = 0 /\ t = 0

\* np.sum(ze ** 2) + cost
sq_error(hz, t, c) ==
    FMul(hz[1] - outputs[t][1], hz[1] - outputs[t][1]) + FMul(hz[2] - outputs[t][2], hz[2] - outputs[t][2]) + c

\* s.W_RMHL + s.learningrate * task.phi(e_hat) * np.dot(z_RMHL_hat,s.r.T) * task.compensation('RMHL')
update(W, e_hat, z_RMHL_hat, rr) ==
    [k \in Outs |-> [i \in Neurons |->
        W[k][i] + LrNum * phi(e_hat) * z_RMHL_hat[k] * rr[i] * compensation]]

\* (variant: another lag)
FeedbackRowLag4(trial) == trial - 4

\* (variant: the feedback is read from the row of the trial that is running)
FeedbackRowLive(trial) == trial

\* the row of s.z_rec a test trial reads its feedback from
FeedbackRow(trial) == trial - Lag

\* numpy's index i into an axis of length n
PyIndex(i, n) == IF i < 0 THEN i + n ELSE i

\* (variant: the test loop starts one trial early)
TestFirstTrialEarly == n_train_trials - 1

\* the first trial of the loop of test()
TestFirstTrial == n_train_trials

\* the position after (trial, t) in for trial: for time_step
NextPos(trial, t) == IF t + 1 < n_timesteps THEN <<trial, t + 1>> ELSE <<trial + 1, 0>>

\* the series a training step and a test step record
SeriesNames == {"error", "cost", "hz", "z", "z_RMHL", "W_RMHL"}
TrainRecorded == {"error", "cost", "hz", "z", "z_RMHL", "W_RMHL"}
\* (variant: test() records the weight norm as train() does)
TestRecordedAll == {"error", "cost", "hz", "z", "z_RMHL", "W_RMHL"}
TestRecorded == {"error", "cost", "hz", "z", "z_RMHL"}

\* series[trial, time_step] = v, for the series a step records
Record(series, name, recorded, trial, t, v) ==
    IF name \in recorded THEN [series EXCEPT ![trial][t] = v] ELSE series

\* the history of writes after a step of the phase ph at (trial, t)
Logged(recorded, ph, trial, t) ==
    [n \in SeriesNames |-> IF n \in recorded THEN Append(writes[n], <<ph, trial, t>>) ELSE writes[n]]

---------------------------------------------------------------------------
(* Floats of a result file: <<"num", v>>, or the degenerate NaN, Inf, -Inf *)

Float(v) == <<"num", v>>
NaN == <<"nan", 0>>
Inf == <<"inf", 1>>
NegInf == <<"inf", -1>>
IsFinite(f) == f[1] = "num"

\* array.flatten() of a (trial, time_step) array, as a sequence of floats
Flatten(a) ==
    [i \in 1..(n_total_trials * n_timesteps) |->
        Float(a[(i - 1) \div n_timesteps][(i - 1) % n_timesteps])]

\* np.reshape(a, (dims, a[0].size)) of a (dim, trial, time_step, 1) array
Reshape(a, dims) ==
    [k \in dims |-> [i \in 1..(n_total_trials * n_timesteps) |->
        Float(a[(i - 1) \div n_timesteps][(i - 1) % n_timesteps][k])]]

RECURSIVE Adjusted(_, _)
\* for i in np.arange(1, n): if _W_RMHL[i] == 0: _W_RMHL[i] = _W_RMHL[i-1]
\* (i is 0-based; the sequence holds entry i at position i+1)
Adjusted(w, n) ==
    IF n <= 1 THEN w
    ELSE LET u == Adjusted(w, n - 1)
         IN IF u[n] = Float(0) THEN [u EXCEPT ![n] = u[n - 1]] ELSE u

RECURSIVE FilteredSignSlip(_, _, _, _)
\* (variant: the previous value enters the bracket with the wrong sign)
FilteredSignSlip(cn, cd, a, n) ==
    IF n <= 1 THEN a
    ELSE LET bar == FilteredSignSlip(cn, cd, a, n - 1)
         IN [bar EXCEPT ![n] = bar[n - 1] + RDiv(cn * (bar[n - 1] + a[n]), cd)]

RECURSIVE Filtered(_, _, _, _)
\* bar = np.copy(a); for i in np.arange(1, n): bar[i] = bar[i-1] + c * (-bar[i-1] + a[i])
Filtered(cn, cd, a, n) ==
    IF n <= 1 THEN a
    ELSE LET bar == Filtered(cn, cd, a, n - 1)
         IN [bar EXCEPT ![n] = bar[n - 1] + RDiv(cn * (-bar[n - 1] + a[n]), cd)]

\* the arrays plot and plot_distinct compute from the arrays of Data.npz
Plotted(d) ==
    LET n == n_timesteps * n_total_trials
        val(a) == [i \in 1..n |-> a[i][2]]
        ce == <<dT[1], dT[2] * parameters.tau_e>>
        cz == <<dT[1], dT[2] * tau_z>>
    IN  [cost_bar |-> Filtered(ce[1], ce[2], val(d.cost), n),
         mse_bar |-> Filtered(ce[1], ce[2], val(d.error), n),
         z_bar |-> [k \in DOMAIN d.z |-> Filtered(cz[1], cz[2], val(d.z[k]), n)],
         z_RMHL_bar |-> [k \in DOMAIN d.z_RMHL |-> Filtered(cz[1], cz[2], val(d.z_RMHL[k]), n)],
         hz_bar |-> [k \in DOMAIN d.hz |-> Filtered(cz[1], cz[2], val(d.hz[k]), n)],
         W_RMHL |-> Adjusted(d.W_RMHL, n)]

---------------------------------------------------------------------------
(* The program *)

Init ==
    /\ pc = "init"
    /\ parameters \in ParameterSet
    /\ exp \in ExpSet
    /\ rng \in 0..(RngMod - 1)          \* the generator before any seeding: from the OS
    /\ rng_log = <<>>
    /\ rseed = Null /\ J = Null /\ Q = Null /\ x = Null /\ r = Null /\ z = Null
    /\ W_RMHL = Null /\ e = Null /\ e_bar = Null /\ z_bar = Null /\ z_RMHL_bar = Null
    /\ error = Null /\ cost_rec = Null /\ z_rec = Null /\ z_RMHL_rec = Null
    /\ hz_rec = Null /\ W_RMHL_rec = Null
    /\ trial_num = 0 /\ time_step = 0
    /\ zt = Null /\ writes = Null /\ W_trained = Null /\ z_trained = Null
    /\ first = Null /\ Data = Null
    /\ plots = [plot |-> Null, plot_distinct |-> Null]

\* __init__ (which calls build) on the dicts parameters and exp
Instantiate ==
    LET pick == IF exp.rseed = 0 THEN np_random_randint(rng) ELSE <<exp.rseed, rng>>
        b    == build(pick[2], pick[1])
    IN  /\ rseed' = pick[1]
        /\ rng' = b.rng
        /\ rng_log' = rng_log \o (IF exp.rseed = 0 THEN <<"randint">> ELSE <<>>) \o b.log
        /\ J' = b.J /\ Q' = b.Q /\ x' = b.x /\ r' = b.r
        /\ z' = ZeroVec
        /\ W_RMHL' = ZeroMat
        /\ e' = 0 /\ e_bar' = 0 /\ z_bar' = ZeroVec /\ z_RMHL_bar' = ZeroVec
        /\ error' = Zeros(0) /\ cost_rec' = Zeros(0)
        /\ z_rec' = Zeros(ZeroVec) /\ z_RMHL_rec' = Zeros(ZeroVec)
        /\ hz_rec' = Zeros(<<0, 0>>) /\ W_RMHL_rec' = Zeros(0)
        /\ writes' = [n \in SeriesNames |-> <<>>]
        /\ trial_num' = 0 /\ time_step' = 0
        /\ zt' = Null /\ W_trained' = Null /\ z_trained' = Null

\* model = ModelRMHL(parameters, task, exp)
Construct ==
    /\ pc = "init"
    /\ Instantiate
    /\ pc' = "built"
    /\ UNCHANGED <<parameters, exp, first, Data, plots>>

\* the call of train(): entering the loops
TrainBegin ==
    /\ pc = "built"
    /\ pc' = "training"
    /\ trial_num' = 0 /\ time_step' = 0
    /\ UNCHANGED <<parameters, exp, rng, rng_log, rseed, J, Q, x, r, z, W_RMHL, e, e_bar,
                   z_bar, z_RMHL_bar, error, cost_rec, z_rec, z_RMHL_rec, hz_rec,
                   W_RMHL_rec, zt, writes, W_trained, z_trained, first, Data, plots>>

\* (variant: the generator is seeded again in every iteration)
TrainDrawsReseed ==
    /\ rng' = Iter(np_random_seed(rng, rseed), N + n_out)
    /\ rng_log' = rng_log \o <<"seed", "noise", "noise">>

\* the generator calls of one training iteration: xi_r, then xi_z
TrainDraws ==
    /\ rng' = Iter(rng, N + n_out)
    /\ rng_log' = rng_log \o <<"noise", "noise">>

\* (variant: the learning rule also reaches the recurrent weights)
TrainFrameLearnsJ ==
    /\ J' = [i \in Neurons |-> [j \in Neurons |-> J[i][j] + r'[i] * r[j]]]
    /\ UNCHANGED <<parameters, exp, rseed, Q, zt, first, Data, plots>>

\* what one training iteration leaves alone
TrainFrame == UNCHANGED <<parameters, exp, rseed, J, Q, zt, first, Data, plots>>

\* one iteration of the loops of train(), and the return after the last one
TrainStep ==
    /\ pc = "training"
    /\ trial_num < n_train_trials
    /\ LET x1    == advance(z)
           xi_r  == noise(rng, N, alpha)
           r1    == [i \in Neurons |-> Tanh(x1[i]) + xi_r[i]]
           t_psi == psi(e_bar, trial_num, time_step)
           xi_z  == noise(Iter(rng, N), n_out, t_psi)
           Wr    == readout(W_RMHL, r1)
           z_RMHL == [k \in Outs |-> Wr[k] + xi_z[k]]
           hz    == h(z_RMHL)
           zRb   == IF IsFirstStep(trial_num, time_step) THEN z_RMHL
                    ELSE LowPassVec(dT[1], dT[2] * tau_z, z_RMHL_bar, z_RMHL)
           z_RMHL_hat == [k \in Outs |-> z_RMHL[k] - zRb[k]]
           zb    == IF IsFirstStep(trial_num, time_step) THEN z_RMHL
                    ELSE LowPassVec(dT[1], dT[2] * tau_z, z_bar, z_RMHL)
           z_hat == [k \in Outs |-> z_RMHL[k] - zb[k]]
           c     == cost(z_hat)
           e1    == sq_error(hz, time_step, c)
           eb    == IF IsFirstStep(trial_num, time_step) THEN e1
                    ELSE LowPass(dT[1], dT[2], e_bar, e1)
           e_hat == e1 - eb
           W1    == update(W_RMHL, e_hat, z_RMHL_hat, r1)
           next  == NextPos(trial_num, time_step)
           zrec  == Record(z_rec, "z", TrainRecorded, trial_num, time_step, z_RMHL)
       IN  /\ x' = x1 /\ r' = r1 /\ z' = z_RMHL
           /\ z_RMHL_bar' = zRb /\ z_bar' = zb
           /\ e' = e1 /\ e_bar' = eb
           /\ W_RMHL' = W1
           /\ error' = Record(error, "error", TrainRecorded, trial_num, time_step, e1)
           /\ cost_rec' = Record(cost_rec, "cost", TrainRecorded, trial_num, time_step, c)
           /\ hz_rec' = Record(hz_rec, "hz", TrainRecorded, trial_num, time_step, hz)
           /\ z_rec' = zrec
           /\ z_RMHL_rec' = Record(z_RMHL_rec, "z_RMHL", TrainRecorded, trial_num, time_step, z_RMHL)
           /\ W_RMHL_rec' = Record(W_RMHL_rec, "W_RMHL", TrainRecorded, trial_num, time_step, norm(W1))
           /\ writes' = Logged(TrainRecorded, "train", trial_num, time_step)
           /\ trial_num' = next[1] /\ time_step' = next[2]
           /\ IF next[1] < n_train_trials
              THEN pc' = "training" /\ UNCHANGED <<W_trained, z_trained>>
              ELSE pc' = "trained" /\ W_trained' = W1 /\ z_trained' = zrec
    /\ TrainDraws
    /\ TrainFrame

\* the call of test(): entering the loops
TestBegin ==
    /\ pc = "trained"
    /\ pc' = "testing"
    /\ trial_num' = TestFirstTrial /\ time_step' = 0
    /\ UNCHANGED <<parameters, exp, rng, rng_log, rseed, J, Q, x, r, z, W_RMHL, e, e_bar,
                   z_bar, z_RMHL_bar, error, cost_rec, z_rec, z_RMHL_rec, hz_rec,
                   W_RMHL_rec, zt, writes, W_trained, z_trained, first, Data, plots>>

\* (variant: the weight update of train() is kept in test())
TestFrameLearns ==
    /\ W_RMHL' = update(W_RMHL, e' - e_bar, [k \in Outs |-> z'[k] - z_RMHL_bar'[k]], r')
    /\ UNCHANGED <<parameters, exp, rng, rng_log, rseed, J, Q, e_bar,
                   W_trained, z_trained, first, Data, plots>>

\* what one test iteration leaves alone
TestFrame ==
    UNCHANGED <<parameters, exp, rng, rng_log, rseed, J, Q, W_RMHL, e_bar,
                W_trained, z_trained, first, Data, plots>>

\* one iteration of the loops of test(), and the return after the last one
TestStep ==
    /\ pc = "testing"
    /\ trial_num < n_total_trials
    /\ LET row   == PyIndex(FeedbackRow(trial_num), n_total_trials)
           fb    == z_rec[row][time_step]
           x1    == advance(fb)
           r1    == [i \in Neurons |-> Tanh(x1[i])]
           z_RMHL == readout(W_RMHL, r1)
           hz    == h(z_RMHL)
           zRb   == LowPassVec(dT[1], dT[2], z_RMHL_bar, z_RMHL)
           zb    == LowPassVec(dT[1], dT[2] * tau_z, z_bar, z_RMHL)
           z_hat == [k \in Outs |-> z_RMHL[k] - zb[k]]
           c     == cost(z_hat)
           e1    == sq_error(hz, time_step, c)
           next  == NextPos(trial_num, time_step)
       IN  /\ zt' = [trial |-> trial_num, row |-> row, col |-> time_step, val |-> fb]
           /\ x' = x1 /\ r' = r1 /\ z' = z_RMHL
           /\ z_RMHL_bar' = zRb /\ z_bar' = zb
           /\ e' = e1
           /\ error' = Record(error, "error", TestRecorded, trial_num, time_step, e1)
           /\ cost_rec' = Record(cost_rec, "cost", TestRecorded, trial_num, time_step, c)
           /\ hz_rec' = Record(hz_rec, "hz", TestRecorded, trial_num, time_step, hz)
           /\ z_rec' = Record(z_rec, "z", TestRecorded, trial_num, time_step, z_RMHL)
           /\ z_RMHL_rec' = Record(z_RMHL_rec, "z_RMHL", TestRecorded, trial_num, time_step, z_RMHL)
           /\ W_RMHL_rec' = Record(W_RMHL_rec, "W_RMHL", TestRecorded, trial_num, time_step, norm(W_RMHL))
           /\ writes' = Logged(TestRecorded, "test", trial_num, time_step)
           /\ trial_num' = next[1] /\ time_step' = next[2]
           /\ pc' = IF next[1] < n_total_trials THEN "testing" ELSE "tested"
    /\ TestFrame

\* what save_results, plot and plot_distinct leave alone: every attribute of the instance
InstanceFrame ==
    UNCHANGED <<parameters, exp, rng, rng_log, rseed, J, Q, x, r, z, W_RMHL, e, e_bar,
                z_bar, z_RMHL_bar, error, cost_rec, z_rec, z_RMHL_rec, hz_rec,
                W_RMHL_rec, trial_num, time_step, zt, writes, W_trained, z_trained, first>>

\* save_results: np.savez of the recorded series
SaveResults ==
    /\ pc = "tested"
    /\ Data' = [error |-> Flatten(error), cost |-> Flatten(cost_rec),
                W_RMHL |-> Flatten(W_RMHL_rec),
                z |-> Reshape(z_rec, Outs), z_RMHL |-> Reshape(z_RMHL_rec, Outs),
                hz |-> Reshape(hz_rec, 1..2)]
    /\ pc' = "saved"
    /\ InstanceFrame /\ UNCHANGED plots

\* plot: reads Data.npz and works on its own copies
Plot ==
    /\ pc = "saved"
    /\ plots.plot = Null
    /\ plots' = [plots EXCEPT !.plot = Plotted(Data)]
    /\ InstanceFrame /\ UNCHANGED <<pc, Data>>

\* plot_distinct: the same passes
PlotDistinct ==
    /\ pc = "saved"
    /\ plots.plot_distinct = Null
    /\ plots' = [plots EXCEPT !.plot_distinct = Plotted(Data)]
    /\ InstanceFrame /\ UNCHANGED <<pc, Data>>

Next ==
    \/ Construct
    \/ TrainBegin
    \/ TrainStep
    \/ TestBegin
    \/ TestStep
    \/ SaveResults
    \/ Plot
    \/ PlotDistinct

Spec == Init /\ [][Next]_vars

---------------------------------------------------------------------------
(* Two instances built one after the other from the same dicts *)

\* a second ModelRMHL(parameters, task, exp) in the same process
Reconstruct ==
    /\ pc = "built"
    /\ first = Null
    /\ first' = [rseed |-> rseed, J |-> J, Q |-> Q, x |-> x]
    /\ Instantiate
    /\ UNCHANGED <<pc, parameters, exp, Data, plots>>

NextTwin ==
    \/ Construct
    \/ Reconstruct

SpecTwin == Init /\ [][NextTwin]_vars

---------------------------------------------------------------------------
(* The plotting passes on any result file of the right length *)

MaxPlotTrain == 2   \* n_train_trials of the instance that plots ranges over 1..MaxPlotTrain

FloatSet == {Float(0), Float(1), Float(Unit), NaN, Inf}

InitPlot ==
    /\ pc = "saved"
    /\ parameters \in {p \in [N : {MaxN}, lmbda : {(3 * Unit) \div 2}, sparsity : {<<1, 2>>},
                              dT : {<<1, 1>>}, n_train_trials : 1..MaxPlotTrain,
                              n_test_trials : {1}, alpha : {Unit \div 4}, tau : {2},
                              tau_w : {1}, tau_e : {2}, tau_z : {1}] : TRUE}
    /\ exp = [rseed |-> 1, timespan |-> 1, task_type |-> 1, n_segs |-> 1,
              arm_len |-> Unit, arm_cost |-> 1]
    /\ \E w \in [1..(parameters.n_train_trials + 1) -> FloatSet] :
          LET zero == [i \in DOMAIN w |-> Float(0)]
          IN  Data = [error |-> zero, cost |-> zero, W_RMHL |-> w,
                      z |-> [k \in 0..1 |-> zero], z_RMHL |-> [k \in 0..1 |-> zero],
                      hz |-> [k \in 1..2 |-> zero]]
    /\ rng = 0 /\ rng_log = <<>>
    /\ rseed = 1 /\ J = Null /\ Q = Null /\ x = Null /\ r = Null /\ z = Null
    /\ W_RMHL = Null /\ e = Null /\ e_bar = Null /\ z_bar = Null /\ z_RMHL_bar = Null
    /\ error = Null /\ cost_rec = Null /\ z_rec = Null /\ z_RMHL_rec = Null
    /\ hz_rec = Null /\ W_RMHL_rec = Null
    /\ trial_num = 0 /\ time_step = 0
    /\ zt = Null /\ writes = Null /\ W_trained = Null /\ z_trained = Null
    /\ first = Null
    /\ plots = [plot |-> Null, plot_distinct |-> Null]

NextPlot ==
    \/ Plot
    \/ PlotDistinct

SpecPlot == InitPlot /\ [][NextPlot]_vars

---------------------------------------------------------------------------
(* The low-pass filter of the plotting passes on any error series, for the
   filter constants ce = dT/tau_e of 1/2, 1 and 2 *)

FilterValues == {0, 1, Unit, 2 * Unit}

InitFilter ==
    /\ pc = "saved"
    /\ parameters \in [N : {MaxN}, lmbda : {(3 * Unit) \div 2}, sparsity : {<<1, 2>>},
                        dT : {<<1, 1>>, <<2, 1>>}, n_train_trials : 1..MaxPlotTrain,
                        n_test_trials : {1}, alpha : {Unit \div 4}, tau : {2},
                        tau_w : {1}, tau_e : {1, 2}, tau_z : {1}]
    /\ exp = [rseed |-> 1, timespan |-> parameters.dT[1], task_type |-> 1, n_segs |-> 1,
              arm_len |-> Unit, arm_cost |-> 1]
    /\ \E a \in [1..(parameters.n_train_trials + 1) -> FilterValues] :
          LET zero == [i \in DOMAIN a |-> Float(0)]
          IN  Data = [error |-> [i \in DOMAIN a |-> Float(a[i])], cost |-> zero, W_RMHL |-> zero,
                      z |-> [k \in 0..1 |-> zero], z_RMHL |-> [k \in 0..1 |-> zero],
                      hz |-> [k \in 1..2 |-> zero]]
    /\ rng = 0 /\ rng_log = <<>>
    /\ rseed = 1 /\ J = Null /\ Q = Null /\ x = Null /\ r = Null /\ z = Null
    /\ W_RMHL = Null /\ e = Null /\ e_bar = Null /\ z_bar = Null /\ z_RMHL_bar = Null
    /\ error = Null /\ cost_rec = Null /\ z_rec = Null /\ z_RMHL_rec = Null
    /\ hz_rec = Null /\ W_RMHL_rec = Null
    /\ trial_num = 0 /\ time_step = 0
    /\ zt = Null /\ writes = Null /\ W_trained = Null /\ z_trained = Null
    /\ first = Null
    /\ plots = [plot |-> Null, plot_distinct |-> Null]

SpecFilter == InitFilter /\ [][NextPlot]_vars

---------------------------------------------------------------------------
(* Properties *)

Built == pc # "init"
AllCells == Trials \X Steps
TrainCells == (0..(n_train_trials - 1)) \X Steps
\* the cells of a series that the run has written, and the position of a cell in the run
Cells(n) == {<<writes[n][i][2], writes[n][i][3]>> : i \in 1..Len(writes[n])}
Pos(w) == w[2] * n_timesteps + w[3]
NonZero(W) == \E k \in DOMAIN W : \E i \in DOMAIN W[k] : W[k][i] # 0
CountOf(tag) == Cardinality({i \in 1..Len(rng_log) : rng_log[i] = tag})
LogRank(tag) ==
    CASE tag = "randint" -> 0
      [] tag = "seed" -> 1
      [] tag \in {"wiring", "unnec"} -> 2
      [] tag = "state" -> 3
      [] tag = "noise" -> 4

\* C1: during and after test(), W_RMHL is what it was when train() returned:
\* no test iteration changes the readout weights.
C1_TestKeepsReadout ==
    pc \in {"testing", "tested", "saved"} => W_RMHL = W_trained

\* a finished test phase after a training that moved the weights
C1_Witness ==
    pc = "tested" /\ NonZero(W_RMHL) /\ W_RMHL = W_trained

\* C2 as claimed: for every test trial k and timestep t the feedback is the output
\* recorded in training at (k-5, t), row k-5 lying in 0..n_train_trials-1.
C2_FeedbackFromTrainingBlock ==
    (Built /\ zt # Null) =>
        /\ zt.row = zt.trial - 5
        /\ zt.row \in 0..(n_train_trials - 1)
        /\ zt.val = z_trained[zt.row][zt.col]

\* C2 amended: the feedback of test trial k at timestep t is the recorded output
\* s.z_rec[k-5, t].  For k < n_train_trials+5 that is the output recorded in training
\* at trial k-5; for k >= n_train_trials+5 (n_test_trials > 5) row k-5 is a row of the
\* test block, written by the test trial five before.
C2_FeedbackLagFive ==
    (Built /\ zt # Null) =>
        LET k == zt.trial
        IN  /\ k >= n_train_trials /\ k < n_total_trials
            /\ zt.row = k - 5
            /\ zt.val = z_rec[zt.row][zt.col]
            /\ k < n_train_trials + 5 =>
                    (zt.row \in 0..(n_train_trials - 1) /\ zt.val = z_trained[k - 5][zt.col])
            /\ k >= n_train_trials + 5 =>
                    (zt.row >= n_train_trials /\ <<"test", zt.row, zt.col>> \in
                        {writes["z"][i] : i \in 1..Len(writes["z"])})

\* a test step fed by a non-zero output that training recorded five trials earlier
C2_Witness ==
    /\ Built /\ zt # Null
    /\ zt.trial < n_train_trials + 5
    /\ zt.row = zt.trial - 5
    /\ \E k \in Outs : zt.val[k] # 0

\* C3 as claimed: after train() and test() every cell of every recorded series,
\* the weight norm included, has been written.
C3_AllSeriesPopulated ==
    pc \in {"tested", "saved"} => \A n \in SeriesNames : Cells(n) = AllCells

\* C3 amended: after train() and test() every cell of error, cost, hz, z and z_RMHL has
\* been written for all trials; W_RMHL_rec has been written for the training trials
\* only, its test rows still holding the zeros of build().
C3_SeriesPopulatedButNorm ==
    pc \in {"tested", "saved"} =>
        /\ \A n \in SeriesNames \ {"W_RMHL"} : Cells(n) = AllCells
        /\ Cells("W_RMHL") = TrainCells
        /\ \A c \in AllCells \ TrainCells : W_RMHL_rec[c[1]][c[2]] = 0

\* a finished run whose training rows hold a non-zero weight norm
C3_Witness ==
    /\ pc = "tested"
    /\ \E c \in TrainCells : W_RMHL_rec[c[1]][c[2]] # 0

\* C4: training writes only rows below n_train_trials, testing only rows from
\* n_train_trials on, and each series is written in strictly increasing
\* (trial, timestep) order, so no cell is written twice or overwritten.
C4_TrialPartition ==
    (Built /\ writes # Null) =>
        \A n \in SeriesNames : \A i \in 1..Len(writes[n]) :
            LET w == writes[n][i]
            IN  /\ w[1] = "train" => w[2] < n_train_trials
                /\ w[1] = "test" => (w[2] >= n_train_trials /\ w[2] < n_total_trials)
                /\ w[3] \in Steps
                /\ \A j \in 1..(i - 1) : Pos(writes[n][j]) < Pos(w)

\* a finished run: both blocks of the output series written
C4_Witness ==
    /\ pc = "tested"
    /\ Len(writes["z"]) = n_total_trials * n_timesteps
    /\ writes["z"][1][1] = "train"
    /\ writes["z"][Len(writes["z"])][1] = "test"

\* C5: the training step at (trial 0, timestep 0) leaves each trace equal to the
\* instantaneous value; every other training step moves each trace by the low-pass
\* recurrence from its previous value (constant dT for e_bar, dT/tau_z for the others).
C5_TraceInitOnce ==
    [][pc = "training" =>
        IF trial_num = 0 /\ time_step = 0
        THEN e_bar' = e' /\ z_bar' = z' /\ z_RMHL_bar' = z'
        ELSE /\ e_bar' = LowPass(dT[1], dT[2], e_bar, e')
             /\ z_bar' = LowPassVec(dT[1], dT[2] * tau_z, z_bar, z')
             /\ z_RMHL_bar' = LowPassVec(dT[1], dT[2] * tau_z, z_RMHL_bar, z')]_vars

\* right after the first training step, the error being non-zero
C5_Witness ==
    /\ Built /\ writes # Null
    /\ Len(writes["error"]) = 1
    /\ e # 0 /\ e_bar = e /\ z_bar = z /\ z_RMHL_bar = z

\* C6 as claimed: every test step updates z_bar, z_RMHL_bar and e_bar by the
\* recurrence and the constants of training (dT/tau_z, dT/tau_z, dT).
C6_TestTracesAsTrain ==
    [][pc = "testing" =>
        /\ z_bar' = LowPassVec(dT[1], dT[2] * tau_z, z_bar, z')
        /\ z_RMHL_bar' = LowPassVec(dT[1], dT[2] * tau_z, z_RMHL_bar, z')
        /\ e_bar' = LowPass(dT[1], dT[2], e_bar, e')]_vars

\* C7: once built, no step of train(), test(), save_results, plot or plot_distinct
\* changes J or Q.
C7_ReservoirReadOnly ==
    [][Built => (J' = J /\ Q' = Q)]_vars

\* everything has run, on a reservoir with non-zero weights
C7_Witness ==
    /\ pc = "saved" /\ plots.plot # Null /\ plots.plot_distinct # Null
    /\ NonZero(J) /\ NonZero(Q)

\* C8 as claimed: for every exp['rseed'], 0 included, two instances built from the
\* same dicts have the same seed, J, Q and x.
C8_SameSeedSameBuild ==
    first # Null => (first.rseed = rseed /\ first.J = J /\ first.Q = Q /\ first.x = x)

\* C8 amended: for every exp['rseed'] other than 0, two instances built from the same
\* dicts have the same seed, J, Q and x (rseed 0 asks for a seed drawn at random).
C8_SameNonzeroSeedSameBuild ==
    (first # Null /\ exp.rseed # 0) =>
        (first.rseed = rseed /\ first.J = J /\ first.Q = Q /\ first.x = x)

\* two instances built with a non-zero seed
C8_Witness ==
    first # Null /\ exp.rseed # 0 /\ NonZero(J) /\ first.J = J

\* C9: build seeds the generator exactly once, before its draws; train() and test()
\* never seed it; the calls come in the order wiring, state, noise, with two noise
\* draws per training step done and none in test().
C9_SeedOnceDrawsInOrder ==
    (Built /\ first = Null) =>
        /\ CountOf("seed") = 1
        /\ \A i \in 1..Len(rng_log) : \A j \in 1..(i - 1) :
                LogRank(rng_log[j]) <= LogRank(rng_log[i])
        /\ CountOf("state") = 1
        /\ writes # Null =>
                CountOf("noise") = 2 * Cardinality({i \in 1..Len(writes["z"]) : writes["z"][i][1] = "train"})

\* a finished run: noise was drawn in training, after the build's draws
C9_Witness ==
    /\ pc = "tested" /\ first = Null
    /\ CountOf("noise") = 2 * n_train_trials * n_timesteps
    /\ rng_log[1] \in {"seed", "randint"}

\* C10 as claimed: after the pass of plot / plot_distinct over the weight norms, no
\* entry at an index >= 1 that has a valid entry before it is NaN or Inf.
C10_DegenerateCarriedForward ==
    \A p \in {"plot", "plot_distinct"} :
        plots[p] # Null =>
            \A i \in 2..Len(Data.W_RMHL) :
                (\E j \in 1..(i - 1) : IsFinite(Data.W_RMHL[j])) => IsFinite(plots[p].W_RMHL[i])

\* the error series of the file, as numbers, and properties of a series
ErrorIn == [i \in DOMAIN Data.error |-> Data.error[i][2]]
NonDecreasing(a) == \A i \in 2..Len(a) : a[i - 1] <= a[i]
NonIncreasing(a) == \A i \in 2..Len(a) : a[i - 1] >= a[i]
Sup(a) == CHOOSE m \in {a[i] : i \in DOMAIN a} : \A i \in DOMAIN a : a[i] <= m
\* the filter constant ce = dT/tau_e is at most 1
CeAtMostOne == dT[1] <= dT[2] * parameters.tau_e

\* C11 as claimed: whatever the constant c, the filtered trace of a monotone input
\* is non-decreasing and lies between its first value and the supremum of the input.
C11_FilterMonotoneBounded ==
    \A p \in {"plot", "plot_distinct"} :
        (plots[p] # Null /\ (NonDecreasing(ErrorIn) \/ NonIncreasing(ErrorIn))) =>
            LET bar == plots[p].mse_bar
            IN  /\ NonDecreasing(bar)
                /\ \A i \in DOMAIN bar : bar[1] <= bar[i] /\ bar[i] <= Sup(ErrorIn)

\* C11 amended: for a constant 0 < c <= 1 and a non-decreasing input the filtered
\* trace starts at the first input, is non-decreasing, and each bar[i] lies between
\* bar[0] and in[i], hence below the supremum of the input.
C11_FilterNonDecreasingBounded ==
    \A p \in {"plot", "plot_distinct"} :
        (plots[p] # Null /\ CeAtMostOne /\ NonDecreasing(ErrorIn)) =>
            LET bar == plots[p].mse_bar
            IN  /\ bar[1] = ErrorIn[1]
                /\ NonDecreasing(bar)
                /\ \A i \in DOMAIN bar :
                        bar[1] <= bar[i] /\ bar[i] <= ErrorIn[i] /\ bar[i] <= Sup(ErrorIn)

\* a rising input filtered with c = 1/2: the trace rises and lags behind the input
C11_Witness ==
    /\ plots.plot # Null /\ CeAtMostOne /\ NonDecreasing(ErrorIn)
    /\ LET n == Len(ErrorIn) IN
        /\ plots.plot.mse_bar[1] < plots.plot.mse_bar[n]
        /\ plots.plot.mse_bar[n] < ErrorIn[n]

\* the number of training and test steps done
StepsDone == IF writes = Null THEN 0 ELSE Len(writes["error"])

\* C12: from the end of build until the first training step has run, every entry
\* of W_RMHL is exactly zero.
C12_ReadoutZeroBeforeTraining ==
    (Built /\ first = Null /\ StepsDone = 0) => ~NonZero(W_RMHL)

\* inside train(), before its first iteration, on a reservoir with non-zero activity
C12_Witness ==
    /\ pc = "training" /\ StepsDone = 0
    /\ ~NonZero(W_RMHL)
    /\ \E i \in Neurons : r[i] # 0

\* C13: after the first training step the traces equal the instantaneous values, so
\* both deviations are zero and W_RMHL, and the norm recorded for it, are still zero.
C13_FirstStepKeepsReadoutZero ==
    (Built /\ first = Null /\ StepsDone = 1) =>
        /\ z_RMHL_bar = z /\ e_bar = e
        /\ ~NonZero(W_RMHL)
        /\ W_RMHL_rec[0][0] = 0

\* right after the first training step, with a non-zero output, error and activity
C13_Witness ==
    /\ Built /\ first = Null /\ StepsDone = 1
    /\ e # 0 /\ (\E k \in Outs : z[k] # 0) /\ (\E i \in Neurons : r[i] # 0)
    /\ ~NonZero(W_RMHL)

\* the steps of the run, in order, that wrote the cell (trial, t) of s.z_rec
WritersOf(trial, t) ==
    {i \in 1..Len(writes["z"]) : writes["z"][i][2] = trial /\ writes["z"][i][3] = t}

\* C14: with n_train_trials >= 5, the test step (k, t) reads the cell (k-5, t) of
\* s.z_rec, 0 <= k-5 < k; that cell was written once, at an earlier step of the run,
\* by train() when k-5 < n_train_trials and by an earlier trial of test() otherwise,
\* and the value read is the value that step wrote.
C14_FeedbackCellWrittenEarlier ==
    (Built /\ zt # Null /\ n_train_trials >= Lag) =>
        LET last == Len(writes["z"])
            ws   == WritersOf(zt.row, zt.col)
        IN  /\ writes["z"][last] = <<"test", zt.trial, zt.col>>
            /\ zt.row = zt.trial - Lag
            /\ 0 <= zt.row /\ zt.row < zt.trial
            /\ Cardinality(ws) = 1
            /\ \A i \in ws :
                /\ i < last
                /\ writes["z"][i][1] = (IF zt.row < n_train_trials THEN "train" ELSE "test")
                /\ writes["z"][i][1] = "test" => writes["z"][i][2] < zt.trial
            /\ zt.val = z_rec[zt.row][zt.col]

\* a test step whose feedback cell was written by an earlier trial of test()
C14_Witness ==
    /\ Built /\ zt # Null /\ n_train_trials >= Lag
    /\ zt.row >= n_train_trials
    /\ zt.row = zt.trial - Lag
    /\ \E i \in WritersOf(zt.row, zt.col) : writes["z"][i][1] = "test" /\ i < Len(writes["z"])

====
